---- MODULE Spec2Model ----
(***************************************************************************)
(* Model of compiler/rustc_mir_transform/src/coverage/graph.rs:            *)
(* CoverageGraph::from_mir (chain merging, adjacency, dominators, loop     *)
(* headers), the graph queries, and ReadyFirstTraversal.                   *)
(*                                                                         *)
(* IndexVec<I, T> is a function with domain 0..len-1, Vec<T> and slices    *)
(* are sequences, Option<T> is a sequence of length 0 (None) or 1 (Some).  *)
(***************************************************************************)
EXTENDS Integers, Sequences, FiniteSets, TLC

VARIABLES mir_body, graph, n_unvisited_preds, state, ready_queue,
          fallback_queue, yielded, ended, pc, panic

vars == <<mir_body, graph, n_unvisited_preds, state, ready_queue,
          fallback_queue, yielded, ended, pc, panic>>

(* ------------------------------ bounds -------------------------------- *)

\* Number of basic blocks of the MIR body.
NumBlocks == 4

\* Largest number of targets of one SwitchInt terminator.
MaxTargets == 2

\* Largest number of blocks whose terminator has more than one successor.
MaxBranches == 1

(* --------------------------- Option, IndexVec -------------------------- *)

None == <<>>

Some(x) == <<x>>

IsSome(o) == Len(o) = 1

Unwrap(o) == o[1]

IdxLen(v) == Cardinality(DOMAIN v)

IdxEmpty == [i \in {} |-> None]

IdxPush(v, x) == [i \in 0..IdxLen(v) |-> IF i < IdxLen(v) THEN v[i] ELSE x]

Last(s) == s[Len(s)]

Front(s) == SubSeq(s, 1, Len(s) - 1)

Range(s) == {s[i] : i \in 1..Len(s)}

(* ------------------------------ MIR body ------------------------------- *)

START_BLOCK == 0

START_BCB == 0

Blocks == 0..(NumBlocks - 1)

\* A terminator: its kind, the successors the kind names as ordinary
\* continuations (targets), and its remaining successors (unwind: the
\* cleanup block, a Yield's drop block, a FalseEdge's imaginary target).
Term(kind, targets, unwind) == [kind |-> kind, targets |-> targets, unwind |-> unwind]

\* Terminator::successors(): every successor, duplicates kept.
TerminatorSuccessors(terminator) == terminator.targets \o terminator.unwind

RECURSIVE PredsFrom(_, _, _)
PredsFrom(body, bb, from) ==
    IF from \notin DOMAIN body THEN <<>>
    ELSE LET succs == TerminatorSuccessors(body[from])
             hits == SelectSeq(succs, LAMBDA s : s = bb)
         IN [i \in 1..Len(hits) |-> from] \o PredsFrom(body, bb, from + 1)

\* BasicBlocks::predecessors(): for every block in index order and every
\* successor of its terminator, the block is pushed onto that successor's list.
MirPredecessors(body) == [bb \in DOMAIN body |-> PredsFrom(body, bb, 0)]

(* --------------------- coverage-relevant successors -------------------- *)

bcb_filtered_successors(terminator) ==
    LET k == terminator.kind
    IN CASE k = "SwitchInt" -> [targets |-> terminator.targets, is_yield |-> FALSE]
         [] k = "Yield" -> [targets |-> <<terminator.targets[1]>>, is_yield |-> TRUE]
         [] k \in {"Assert", "Drop", "FalseEdge", "FalseUnwind", "Goto"} ->
                [targets |-> <<terminator.targets[1]>>, is_yield |-> FALSE]
         [] k = "Call" -> [targets |-> terminator.targets, is_yield |-> FALSE]
         [] k = "InlineAsm" -> [targets |-> terminator.targets, is_yield |-> FALSE]
         [] k \in {"CoroutineDrop", "Return", "TailCall", "Unreachable",
                   "UnwindResume", "UnwindTerminate"} ->
                [targets |-> <<>>, is_yield |-> FALSE]

is_out_summable(cs) == ~cs.is_yield /\ cs.targets # <<>>

is_out_chainable(cs) == is_out_summable(cs) /\ Len(cs.targets) = 1

coverage_successors(body, bb) == bcb_filtered_successors(body[bb])

(* ------------------------- depth-first search -------------------------- *)

\* The successors not yet visited, in order, each inserted into the visited
\* set as it is met (a repeated target is kept once).
RECURSIVE UnvisitedOf(_, _, _)
UnvisitedOf(succs, i, visited) ==
    IF i > Len(succs) THEN <<>>
    ELSE IF succs[i] \in visited THEN UnvisitedOf(succs, i + 1, visited)
    ELSE <<succs[i]>> \o UnvisitedOf(succs, i + 1, visited \cup {succs[i]})

\* DepthFirstSearch::next, iterated to exhaustion: pop a node, push its
\* unvisited successors, yield the node.
RECURSIVE DfsRun(_, _, _)
DfsRun(body, stack, visited) ==
    IF stack = <<>> THEN <<>>
    ELSE LET n == Last(stack)
             new == UnvisitedOf(coverage_successors(body, n).targets, 1, visited)
         IN <<n>> \o DfsRun(body, Front(stack) \o new, visited \cup Range(new))

depth_first_search(body, start) == DfsRun(body, <<start>>, {start})

(* ----------------------------- chain merger ---------------------------- *)

BcbData(basic_blocks, summable) ==
    [basic_blocks |-> basic_blocks, is_out_summable |-> summable]

leader_bb(data) == data.basic_blocks[1]

last_bb(data) == Last(data.basic_blocks)

\* flush_chain_into_new_bcb recording only the chain's leader in bb_to_bcb.
flush_chain_LeaderOnly(body, st) ==
    LET basic_blocks == st.current_chain
        bcb == IdxLen(st.bcbs)
        summable == IF basic_blocks = <<>> THEN FALSE
                    ELSE is_out_summable(bcb_filtered_successors(body[Last(basic_blocks)]))
    IN [bcbs |-> IdxPush(st.bcbs, BcbData(basic_blocks, summable)),
        bb_to_bcb |-> [bb \in DOMAIN st.bb_to_bcb |->
                         IF basic_blocks # <<>> /\ bb = basic_blocks[1]
                         THEN Some(bcb) ELSE st.bb_to_bcb[bb]],
        current_chain |-> <<>>]

\* The closure flush_chain_into_new_bcb: st holds bcbs, bb_to_bcb and the
\* open chain.
flush_chain_into_new_bcb(body, st) ==
    LET basic_blocks == st.current_chain
        bcb == IdxLen(st.bcbs)
        summable == IF basic_blocks = <<>> THEN FALSE
                    ELSE is_out_summable(bcb_filtered_successors(body[Last(basic_blocks)]))
    IN [bcbs |-> IdxPush(st.bcbs, BcbData(basic_blocks, summable)),
        bb_to_bcb |-> [bb \in DOMAIN st.bb_to_bcb |->
                         IF bb \in Range(basic_blocks) THEN Some(bcb) ELSE st.bb_to_bcb[bb]],
        current_chain |-> <<>>]

\* can_chain without the test that prev is the only predecessor of bb.
can_chain_ChainableOnly(body, prev, bb) ==
    is_out_chainable(coverage_successors(body, prev))

\* can_chain without the test that prev permits chaining.
can_chain_SolePredOnly(body, prev, bb) == MirPredecessors(body)[bb] = <<prev>>

can_chain(body, prev, bb) ==
    /\ is_out_chainable(coverage_successors(body, prev))
    /\ MirPredecessors(body)[bb] = <<prev>>

\* One iteration of the loop over the traversal order.
ChainStep(body, st, bb) ==
    LET flushed == IF st.current_chain # <<>> /\ ~can_chain(body, Last(st.current_chain), bb)
                   THEN flush_chain_into_new_bcb(body, st)
                   ELSE st
    IN [flushed EXCEPT !.current_chain = Append(flushed.current_chain, bb)]

RECURSIVE ChainLoop(_, _, _, _)
ChainLoop(body, order, i, st) ==
    IF i > Len(order) THEN st
    ELSE ChainLoop(body, order, i + 1, ChainStep(body, st, order[i]))

compute_basic_coverage_blocks(body) ==
    LET order == SelectSeq(depth_first_search(body, START_BLOCK),
                           LAMBDA bb : body[bb].kind # "Unreachable")
        st0 == [bcbs |-> IdxEmpty,
                bb_to_bcb |-> [bb \in DOMAIN body |-> None],
                current_chain |-> <<>>]
        st1 == ChainLoop(body, order, 1, st0)
        st2 == IF st1.current_chain # <<>> THEN flush_chain_into_new_bcb(body, st1) ELSE st1
    IN [bcbs |-> st2.bcbs, bb_to_bcb |-> st2.bb_to_bcb]

(* ---------------------------- adjacency -------------------------------- *)

\* .filter_map(|successor_bb| bb_to_bcb[successor_bb])
RECURSIVE FilterMapBcb(_, _, _)
FilterMapBcb(bb_to_bcb, targets, i) ==
    IF i > Len(targets) THEN <<>>
    ELSE bb_to_bcb[targets[i]] \o FilterMapBcb(bb_to_bcb, targets, i + 1)

\* .filter(|&successor_bcb| seen_bcbs.insert(successor_bcb))
RECURSIVE DedupKeepFirst(_, _, _)
DedupKeepFirst(s, i, seen) ==
    IF i > Len(s) THEN <<>>
    ELSE IF s[i] \in seen THEN DedupKeepFirst(s, i + 1, seen)
    ELSE <<s[i]>> \o DedupKeepFirst(s, i + 1, seen \cup {s[i]})

\* BcbSuccessors without the de-duplication filter.
BcbSuccessors_NoDedup(body, bcbs, bb_to_bcb, bcb) ==
    FilterMapBcb(bb_to_bcb, bcb_filtered_successors(body[last_bb(bcbs[bcb])]).targets, 1)

BcbSuccessors(body, bcbs, bb_to_bcb, bcb) ==
    LET terminator == body[last_bb(bcbs[bcb])]
    IN DedupKeepFirst(
           FilterMapBcb(bb_to_bcb, bcb_filtered_successors(terminator).targets, 1), 1, {})

BuildSuccessors(body, bcbs, bb_to_bcb) ==
    [bcb \in DOMAIN bcbs |-> BcbSuccessors(body, bcbs, bb_to_bcb, bcb)]

\* predecessors[successor].push(bcb)
PushPredecessor(predecessors, successor, bcb) ==
    [predecessors EXCEPT ![successor] = Append(@, bcb)]

\* PredInner that leaves the loop after the first successor.
PredInner_FirstOnly(predecessors, bcb, bcb_successors, i) ==
    IF bcb_successors = <<>> THEN predecessors
    ELSE PushPredecessor(predecessors, bcb_successors[1], bcb)

RECURSIVE PredInner(_, _, _, _)
PredInner(predecessors, bcb, bcb_successors, i) ==
    IF i > Len(bcb_successors) THEN predecessors
    ELSE PredInner(PushPredecessor(predecessors, bcb_successors[i], bcb),
                   bcb, bcb_successors, i + 1)

RECURSIVE PredOuter(_, _, _)
PredOuter(successors, predecessors, bcb) ==
    IF bcb \notin DOMAIN successors THEN predecessors
    ELSE PredOuter(successors, PredInner(predecessors, bcb, successors[bcb], 1), bcb + 1)

BuildPredecessors(successors) ==
    PredOuter(successors, [bcb \in DOMAIN successors |-> <<>>], 0)

(* ---------------------------- dominators ------------------------------- *)

\* Nodes reachable from the start node along successor edges without
\* entering the node `avoid`.
RECURSIVE ReachAvoiding(_, _, _, _)
ReachAvoiding(successors, avoid, frontier, seen) ==
    IF frontier = {} THEN seen
    ELSE LET new == (UNION {Range(successors[n]) : n \in frontier}) \ (seen \cup {avoid})
         IN ReachAvoiding(successors, avoid, new, seen \cup new)

ReachableWithout(successors, start, avoid) ==
    IF start = avoid THEN {} ELSE ReachAvoiding(successors, avoid, {start}, {start})

\* a dominates b: every path from the start node to b passes through a.
DominatesByPaths(successors, start, a, b) ==
    a = b \/ b \notin ReachableWithout(successors, start, a)

\* graph::dominators::dominators: the immediate dominator of every node
\* reachable from the start node (None for the start node itself).
dominators(successors, start) ==
    LET nodes == DOMAIN successors
        sdom(b) == {a \in nodes \ {b} : DominatesByPaths(successors, start, a, b)}
    IN [b \in nodes |->
          IF sdom(b) = {} THEN None
          ELSE Some(CHOOSE d \in sdom(b) :
                      \A a \in sdom(b) : DominatesByPaths(successors, start, a, d))]

immediate_dominator(g, bcb) == Unwrap(g.dominators)[bcb]

\* Dominators::dominates: dom is node or an ancestor of node in the
\* dominator tree.
RECURSIVE IdomChainHas(_, _, _, _)
IdomChainHas(idom, dom, node, fuel) ==
    IF dom = node THEN TRUE
    ELSE IF fuel = 0 \/ idom[node] = None THEN FALSE
    ELSE IdomChainHas(idom, dom, Unwrap(idom[node]), fuel - 1)

dominates(g, dom, node) ==
    IdomChainHas(Unwrap(g.dominators), dom, node, IdxLen(g.bcbs))

(* ----------------------- reverse post-order ---------------------------- *)

\* graph::iterate::post_order_walk, written recursively: a node is marked
\* visited on entry and pushed onto the result after its successors.
RECURSIVE PostOrderWalk(_, _, _)
RECURSIVE PostOrderSuccs(_, _, _, _)
PostOrderWalk(successors, node, st) ==
    IF node \in st.visited THEN st
    ELSE LET entered == [st EXCEPT !.visited = @ \cup {node}]
             after == PostOrderSuccs(successors, successors[node], 1, entered)
         IN [after EXCEPT !.result = Append(@, node)]

PostOrderSuccs(successors, succs, i, st) ==
    IF i > Len(succs) THEN st
    ELSE PostOrderSuccs(successors, succs, i + 1, PostOrderWalk(successors, succs[i], st))

Reverse(s) == [i \in 1..Len(s) |-> s[Len(s) + 1 - i]]

reverse_post_order(successors, start) ==
    Reverse(PostOrderWalk(successors, start, [visited |-> {}, result |-> <<>>]).result)

(* ------------------------- CoverageGraph queries ----------------------- *)

num_nodes(g) == IdxLen(g.bcbs)

bcb_from_bb(g, bb) == IF bb < IdxLen(g.bb_to_bcb) THEN g.bb_to_bcb[bb] ELSE None

start_node(g) == bcb_from_bb(g, START_BLOCK)

\* cmp_in_dominator_order comparing b's rank with a's.
cmp_in_dominator_order_Swapped(g, a, b) ==
    IF g.dominator_order_rank[b] < g.dominator_order_rank[a] THEN "Less"
    ELSE IF g.dominator_order_rank[b] = g.dominator_order_rank[a] THEN "Equal"
    ELSE "Greater"

cmp_in_dominator_order(g, a, b) ==
    IF g.dominator_order_rank[a] < g.dominator_order_rank[b] THEN "Less"
    ELSE IF g.dominator_order_rank[a] = g.dominator_order_rank[b] THEN "Equal"
    ELSE "Greater"

\* sole_predecessor that returns the first predecessor of any node that has one.
sole_predecessor_First(g, to_bcb) ==
    IF Len(g.predecessors[to_bcb]) >= 1 THEN Some(g.predecessors[to_bcb][1]) ELSE None

sole_predecessor(g, to_bcb) ==
    IF Len(g.predecessors[to_bcb]) = 1 THEN Some(g.predecessors[to_bcb][1]) ELSE None

\* simple_successor without the is_out_summable check.
simple_successor_AnySoleEdge(g, from_bcb) ==
    IF Len(g.successors[from_bcb]) = 1 THEN Some(g.successors[from_bcb][1]) ELSE None

simple_successor(g, from_bcb) ==
    IF g.bcbs[from_bcb].is_out_summable /\ Len(g.successors[from_bcb]) = 1
    THEN Some(g.successors[from_bcb][1])
    ELSE None

\* reloop_predecessors keeping the predecessors that dominate to_bcb.
reloop_predecessors_Swapped(g, to_bcb) ==
    SelectSeq(g.predecessors[to_bcb], LAMBDA pred : dominates(g, pred, to_bcb))

reloop_predecessors(g, to_bcb) ==
    SelectSeq(g.predecessors[to_bcb], LAMBDA pred : dominates(g, to_bcb, pred))

\* strictly_enclosing that stops after the nearest enclosing header.
strictly_enclosing_Once(g, curr, fuel) == g.enclosing_loop_header[curr]

\* The iter::from_fn closure, pulled until it returns None; `fuel` stops the
\* unrolling one step after every node could have been yielded once.
RECURSIVE strictly_enclosing(_, _, _)
strictly_enclosing(g, curr, fuel) ==
    LET enclosing == g.enclosing_loop_header[curr]
    IN IF enclosing = None \/ fuel = 0 THEN <<>>
       ELSE <<Unwrap(enclosing)>> \o strictly_enclosing(g, Unwrap(enclosing), fuel - 1)

\* loop_headers_containing without the node itself.
loop_headers_containing_NoSelf(g, bcb) == strictly_enclosing(g, bcb, num_nodes(g) + 1)

loop_headers_containing(g, bcb) ==
    LET self_if_loop_header == IF bcb \in g.is_loop_header THEN <<bcb>> ELSE <<>>
    IN self_if_loop_header \o strictly_enclosing(g, bcb, num_nodes(g) + 1)

(* ------------------------------ from_mir ------------------------------- *)

\* RankStep that does not inherit the immediate dominator's enclosing loop.
RankStep_NoInherit(g, rank, bcb) ==
    LET g1 == [g EXCEPT !.dominator_order_rank[bcb] = rank]
        g2 == IF reloop_predecessors(g1, bcb) # <<>>
              THEN [g1 EXCEPT !.is_loop_header = @ \cup {bcb}]
              ELSE g1
        idom == immediate_dominator(g2, bcb)
    IN IF IsSome(idom) /\ Unwrap(idom) \in g2.is_loop_header
       THEN [g2 EXCEPT !.enclosing_loop_header[bcb] = idom]
       ELSE g2

\* One iteration of `for (rank, bcb) in (0u32..).zip(dominator_order)`.
RankStep(g, rank, bcb) ==
    LET g1 == [g EXCEPT !.dominator_order_rank[bcb] = rank]
        g2 == IF reloop_predecessors(g1, bcb) # <<>>
              THEN [g1 EXCEPT !.is_loop_header = @ \cup {bcb}]
              ELSE g1
        idom == immediate_dominator(g2, bcb)
    IN IF IsSome(idom)
       THEN LET dom == Unwrap(idom)
            IN [g2 EXCEPT !.enclosing_loop_header[bcb] =
                   IF dom \in g2.is_loop_header THEN Some(dom)
                   ELSE g2.enclosing_loop_header[dom]]
       ELSE g2

RECURSIVE RankLoop(_, _, _)
RankLoop(g, dominator_order, i) ==
    IF i > Len(dominator_order) THEN g
    ELSE RankLoop(RankStep(g, i - 1, dominator_order[i]), dominator_order, i + 1)

\* The graph before from_mir has run.
NoGraph ==
    [bcbs |-> IdxEmpty, bb_to_bcb |-> IdxEmpty, successors |-> IdxEmpty,
     predecessors |-> IdxEmpty, dominators |-> None, dominator_order_rank |-> IdxEmpty,
     is_loop_header |-> {}, enclosing_loop_header |-> IdxEmpty]

\* The struct literal `Self { bcbs, bb_to_bcb, successors, predecessors, .. }`.
GraphOfEdges(bcbs, bb_to_bcb, successors) ==
    [bcbs |-> bcbs, bb_to_bcb |-> bb_to_bcb, successors |-> successors,
     predecessors |-> BuildPredecessors(successors), dominators |-> None,
     dominator_order_rank |-> [bcb \in DOMAIN bcbs |-> 0],
     is_loop_header |-> {},
     enclosing_loop_header |-> [bcb \in DOMAIN bcbs |-> None]]

GraphOfParts(body, parts) ==
    GraphOfEdges(parts.bcbs, parts.bb_to_bcb,
                 BuildSuccessors(body, parts.bcbs, parts.bb_to_bcb))

\* this.dominators = Some(graph::dominators::dominators(&this))
SetDominators(this) ==
    [this EXCEPT !.dominators = Some(dominators(this.successors, Unwrap(start_node(this))))]

Outcome(g, message) == [graph |-> g, panic |-> message]

\* The two assertions that end from_mir.
FinalAsserts(this) ==
    IF leader_bb(this.bcbs[START_BCB]) # START_BLOCK
    THEN Outcome(this, "assert!(leader_bb == START_BLOCK)")
    ELSE IF this.predecessors[START_BCB] # <<>>
    THEN Outcome(this, "assert!(predecessors[START_BCB].is_empty())")
    ELSE Outcome(this, "")

RankAll(this, dominator_order) ==
    IF Len(dominator_order) # num_nodes(this)
    THEN Outcome(this, "assert_eq!(dominator_order.len(), num_nodes)")
    ELSE FinalAsserts(RankLoop(this, dominator_order, 1))

Analyze(this) ==
    IF start_node(this) = None
    THEN Outcome(this, "mir::START_BLOCK should be in a BasicCoverageBlock")
    ELSE RankAll(SetDominators(this),
                 reverse_post_order(this.successors, Unwrap(start_node(this))))

\* CoverageGraph::from_mir. The result carries the graph and the message of
\* the assertion that failed, "" when none did.
from_mir(body) == Analyze(GraphOfParts(body, compute_basic_coverage_blocks(body)))

(* ------------------------- ReadyFirstTraversal ------------------------- *)

\* ReadyState derives Ord: the variants compare in declaration order.
ReadyStateOrd(s) ==
    CASE s = "Unqueued" -> 0
      [] s = "InFallbackQueue" -> 1
      [] s = "InReadyQueue" -> 2
      [] s = "Visited" -> 3

\* ReadyFirstTraversal::new (its debug_assert! only restates that the start
\* node is the one node without predecessors and changes nothing).
\* new that counts one predecessor less for a node with several.
new_OnePredLess(g) ==
    [n_unvisited_preds |-> [node \in DOMAIN g.bcbs |->
                               IF Len(g.predecessors[node]) >= 2
                               THEN Len(g.predecessors[node]) - 1
                               ELSE Len(g.predecessors[node])],
     state |-> [node \in DOMAIN g.bcbs |->
                   IF node = START_BCB THEN "InReadyQueue" ELSE "Unqueued"],
     ready_queue |-> <<START_BCB>>,
     fallback_queue |-> <<>>,
     panic |-> ""]

\* new that starts the traversal at the last node instead of the entry.
new_StartAtLast(g) ==
    [n_unvisited_preds |-> [node \in DOMAIN g.bcbs |-> Len(g.predecessors[node])],
     state |-> [node \in DOMAIN g.bcbs |->
                   IF node = IdxLen(g.bcbs) - 1 THEN "InReadyQueue" ELSE "Unqueued"],
     ready_queue |-> <<IdxLen(g.bcbs) - 1>>,
     fallback_queue |-> <<>>,
     panic |-> ""]

new(g) ==
    [n_unvisited_preds |-> [node \in DOMAIN g.bcbs |-> Len(g.predecessors[node])],
     state |-> [node \in DOMAIN g.bcbs |->
                  IF node = START_BCB THEN "InReadyQueue" ELSE "Unqueued"],
     ready_queue |-> <<START_BCB>>,
     fallback_queue |-> <<>>,
     panic |-> ""]

\* PopFallback that gives up at the first stale entry.
PopFallback_StopAtStale(t) ==
    IF t.fallback_queue = <<>> THEN [t |-> t, node |-> None]
    ELSE LET node == Head(t.fallback_queue)
             popped == [t EXCEPT !.fallback_queue = Tail(@)]
         IN CASE t.state[node] = "InFallbackQueue" -> [t |-> popped, node |-> Some(node)]
              [] t.state[node] = "Visited" -> [t |-> popped, node |-> None]
              [] OTHER -> [t |-> [popped EXCEPT !.panic =
                                    "unexpected state in the fallback queue"],
                           node |-> None]

\* The `while let Some(node) = self.fallback_queue.pop_front()` loop.
RECURSIVE PopFallback(_)
PopFallback(t) ==
    IF t.fallback_queue = <<>> THEN [t |-> t, node |-> None]
    ELSE LET node == Head(t.fallback_queue)
             popped == [t EXCEPT !.fallback_queue = Tail(@)]
         IN CASE t.state[node] = "InFallbackQueue" -> [t |-> popped, node |-> Some(node)]
              [] t.state[node] = "Visited" -> PopFallback(popped)
              [] OTHER -> [t |-> [popped EXCEPT !.panic =
                                    "unexpected state in the fallback queue"],
                           node |-> None]

\* next_inner that tries the fallback queue before the ready queue.
next_inner_FallbackFirst(t) ==
    LET r == PopFallback(t)
    IN IF r.node # None \/ r.t.panic # "" \/ t.ready_queue = <<>> THEN r
       ELSE [t |-> [r.t EXCEPT !.ready_queue = Tail(@)], node |-> Some(Head(t.ready_queue))]

next_inner(t) ==
    IF t.ready_queue # <<>>
    THEN LET node == Head(t.ready_queue)
             popped == [t EXCEPT !.ready_queue = Tail(@)]
         IN IF t.state[node] # "InReadyQueue"
            THEN [t |-> [popped EXCEPT !.panic = "assert_eq!(state[node], InReadyQueue)"],
                  node |-> None]
            ELSE [t |-> popped, node |-> Some(node)]
    ELSE PopFallback(t)

\* EnqueueSuccessor that never pushes onto the fallback queue.
EnqueueSuccessor_NoFallback(t, succ) ==
    CASE t.state[succ] = "Visited" -> t
      [] t.state[succ] = "InReadyQueue" ->
            [t EXCEPT !.panic = "nodes in the ready queue have no unvisited predecessors"]
      [] OTHER ->
            IF t.n_unvisited_preds[succ] = 0
            THEN [t EXCEPT !.panic = "attempt to subtract with overflow"]
            ELSE LET t1 == [t EXCEPT !.n_unvisited_preds[succ] = @ - 1]
                 IN IF t1.n_unvisited_preds[succ] = 0
                    THEN [t1 EXCEPT !.state[succ] = "InReadyQueue",
                                    !.ready_queue = Append(@, succ)]
                    ELSE t1

\* EnqueueSuccessor that pushes a successor onto the fallback queue each time
\* its counter stays above 0.
EnqueueSuccessor_PushAgain(t, succ) ==
    CASE t.state[succ] = "Visited" -> t
      [] t.state[succ] = "InReadyQueue" ->
            [t EXCEPT !.panic = "nodes in the ready queue have no unvisited predecessors"]
      [] OTHER ->
            IF t.n_unvisited_preds[succ] = 0
            THEN [t EXCEPT !.panic = "attempt to subtract with overflow"]
            ELSE LET t1 == [t EXCEPT !.n_unvisited_preds[succ] = @ - 1]
                 IN IF t1.n_unvisited_preds[succ] = 0
                    THEN [t1 EXCEPT !.state[succ] = "InReadyQueue",
                                    !.ready_queue = Append(@, succ)]
                    ELSE [t1 EXCEPT !.state[succ] = "InFallbackQueue",
                                    !.fallback_queue = Append(@, succ)]

\* EnqueueSuccessor that decrements the counter of a visited successor too.
EnqueueSuccessor_CountVisited(t, succ) ==
    CASE t.state[succ] = "InReadyQueue" ->
            [t EXCEPT !.panic = "nodes in the ready queue have no unvisited predecessors"]
      [] OTHER ->
            IF t.n_unvisited_preds[succ] = 0
            THEN [t EXCEPT !.panic = "attempt to subtract with overflow"]
            ELSE LET t1 == [t EXCEPT !.n_unvisited_preds[succ] = @ - 1]
                 IN IF t.state[succ] = "Visited" THEN t1
                    ELSE IF t1.n_unvisited_preds[succ] = 0
                    THEN [t1 EXCEPT !.state[succ] = "InReadyQueue",
                                    !.ready_queue = Append(@, succ)]
                    ELSE IF t.state[succ] = "Unqueued"
                    THEN [t1 EXCEPT !.state[succ] = "InFallbackQueue",
                                    !.fallback_queue = Append(@, succ)]
                    ELSE t1

\* EnqueueSuccessor that puts a visited successor back on the fallback queue.
EnqueueSuccessor_Requeue(t, succ) ==
    CASE t.state[succ] = "Visited" ->
            [t EXCEPT !.state[succ] = "InFallbackQueue", !.fallback_queue = Append(@, succ)]
      [] t.state[succ] = "InReadyQueue" ->
            [t EXCEPT !.panic = "nodes in the ready queue have no unvisited predecessors"]
      [] OTHER ->
            IF t.n_unvisited_preds[succ] = 0
            THEN [t EXCEPT !.panic = "attempt to subtract with overflow"]
            ELSE LET t1 == [t EXCEPT !.n_unvisited_preds[succ] = @ - 1]
                 IN IF t1.n_unvisited_preds[succ] = 0
                    THEN [t1 EXCEPT !.state[succ] = "InReadyQueue",
                                    !.ready_queue = Append(@, succ)]
                    ELSE IF t.state[succ] = "Unqueued"
                    THEN [t1 EXCEPT !.state[succ] = "InFallbackQueue",
                                    !.fallback_queue = Append(@, succ)]
                    ELSE t1

\* EnqueueSuccessor that pushes at the front of the fallback queue.
EnqueueSuccessor_PushFront(t, succ) ==
    CASE t.state[succ] = "Visited" -> t
      [] t.state[succ] = "InReadyQueue" ->
            [t EXCEPT !.panic = "nodes in the ready queue have no unvisited predecessors"]
      [] OTHER ->
            IF t.n_unvisited_preds[succ] = 0
            THEN [t EXCEPT !.panic = "attempt to subtract with overflow"]
            ELSE LET t1 == [t EXCEPT !.n_unvisited_preds[succ] = @ - 1]
                 IN IF t1.n_unvisited_preds[succ] = 0
                    THEN [t1 EXCEPT !.state[succ] = "InReadyQueue",
                                    !.ready_queue = Append(@, succ)]
                    ELSE IF t.state[succ] = "Unqueued"
                    THEN [t1 EXCEPT !.state[succ] = "InFallbackQueue",
                                    !.fallback_queue = <<succ>> \o @]
                    ELSE t1

\* The body of `for &succ in &self.graph.successors[node]`.
EnqueueSuccessor(t, succ) ==
    CASE t.state[succ] = "Visited" -> t
      [] t.state[succ] = "InReadyQueue" ->
            [t EXCEPT !.panic = "nodes in the ready queue have no unvisited predecessors"]
      [] OTHER ->
            LET is_unqueued == t.state[succ] = "Unqueued"
            IN IF t.n_unvisited_preds[succ] = 0
               THEN [t EXCEPT !.panic = "attempt to subtract with overflow"]
               ELSE LET t1 == [t EXCEPT !.n_unvisited_preds[succ] = @ - 1]
                    IN IF t1.n_unvisited_preds[succ] = 0
                       THEN [t1 EXCEPT !.state[succ] = "InReadyQueue",
                                       !.ready_queue = Append(@, succ)]
                       ELSE IF is_unqueued
                       THEN [t1 EXCEPT !.state[succ] = "InFallbackQueue",
                                       !.fallback_queue = Append(@, succ)]
                       ELSE t1

RECURSIVE EnqueueLoop(_, _, _)
EnqueueLoop(t, succs, i) ==
    IF i > Len(succs) \/ t.panic # "" THEN t
    ELSE EnqueueLoop(EnqueueSuccessor(t, succs[i]), succs, i + 1)

\* mark_visited_and_enqueue_successors that leaves the node's state as it was.
mark_visited_and_enqueue_successors_NoMark(t, g, node) ==
    IF ~(ReadyStateOrd(t.state[node]) < ReadyStateOrd("Visited"))
    THEN [t EXCEPT !.panic = "assert!(state[node] < Visited)"]
    ELSE EnqueueLoop(t, g.successors[node], 1)

mark_visited_and_enqueue_successors(t, g, node) ==
    IF ~(ReadyStateOrd(t.state[node]) < ReadyStateOrd("Visited"))
    THEN [t EXCEPT !.panic = "assert!(state[node] < Visited)"]
    ELSE EnqueueLoop([t EXCEPT !.state[node] = "Visited"], g.successors[node], 1)

\* Iterator::next
IteratorNext(t, g) ==
    LET r == next_inner(t)
    IN IF r.node = None \/ r.t.panic # "" THEN [t |-> r.t, node |-> None]
       ELSE [t |-> mark_visited_and_enqueue_successors(r.t, g, Unwrap(r.node)),
             node |-> r.node]

(* ------------------------------- inputs -------------------------------- *)

\* The entry block of a MIR body has no predecessors.
Targets == Blocks \ {START_BLOCK}

\* Terminators with at most one successor.
SimpleTerminators ==
    {Term("Return", <<>>, <<>>), Term("Unreachable", <<>>, <<>>)}
    \cup {Term("Goto", <<t>>, <<>>) : t \in Targets}
    \cup {Term("Yield", <<t>>, <<>>) : t \in Targets}

\* Terminators with several successors: a call with a cleanup block, a switch.
BranchTerminators ==
    {Term("Call", <<t>>, <<u>>) : t \in Targets, u \in Targets}
    \cup {Term("SwitchInt", ts, <<>>) : ts \in UNION {[1..n -> Targets] : n \in 2..MaxTargets}}

Terminators == SimpleTerminators \cup BranchTerminators

Branches(body) == {bb \in DOMAIN body : Len(TerminatorSuccessors(body[bb])) > 1}

Bodies == {body \in [Blocks -> Terminators] : Cardinality(Branches(body)) <= MaxBranches}

(* ---------------------------- state machine ---------------------------- *)

Traversal ==
    [n_unvisited_preds |-> n_unvisited_preds, state |-> state,
     ready_queue |-> ready_queue, fallback_queue |-> fallback_queue, panic |-> panic]

Init ==
    /\ mir_body \in Bodies
    /\ graph = NoGraph
    /\ n_unvisited_preds = IdxEmpty
    /\ state = IdxEmpty
    /\ ready_queue = <<>>
    /\ fallback_queue = <<>>
    /\ yielded = <<>>
    /\ ended = FALSE
    /\ pc = "mir"
    /\ panic = ""

\* CoverageGraph::from_mir(mir_body)
FromMir ==
    /\ pc = "mir"
    /\ LET r == from_mir(mir_body)
       IN /\ graph' = IF r.panic = "" THEN r.graph ELSE graph
          /\ panic' = r.panic
          /\ pc' = IF r.panic = "" THEN "built" ELSE "panicked"
    /\ UNCHANGED <<mir_body, n_unvisited_preds, state, ready_queue, fallback_queue,
                   yielded, ended>>

\* ReadyFirstTraversal::new(&graph)
NewTraversal ==
    /\ pc = "built"
    /\ LET t == new(graph)
       IN /\ n_unvisited_preds' = t.n_unvisited_preds
          /\ state' = t.state
          /\ ready_queue' = t.ready_queue
          /\ fallback_queue' = t.fallback_queue
    /\ pc' = "traversal"
    /\ UNCHANGED <<mir_body, graph, yielded, ended, panic>>

\* <ReadyFirstTraversal as Iterator>::next
next ==
    /\ pc = "traversal"
    /\ LET r == IteratorNext(Traversal, graph)
       IN /\ n_unvisited_preds' = r.t.n_unvisited_preds
          /\ state' = r.t.state
          /\ ready_queue' = r.t.ready_queue
          /\ fallback_queue' = r.t.fallback_queue
          /\ panic' = r.t.panic
          /\ pc' = IF r.t.panic = "" THEN "traversal" ELSE "panicked"
          /\ yielded' = yielded \o r.node
          /\ ended' = (r.t.panic = "" /\ r.node = None)
    /\ UNCHANGED <<mir_body, graph>>

Next == FromMir \/ NewTraversal \/ next

Spec == Init /\ [][Next]_vars

(* ------------------------- the diamond scenario ------------------------ *)

\* The ways of numbering the five blocks after the entry block.
DiamondNumberings == {f \in [1..5 -> 1..5] : \A i, j \in 1..5 : f[i] = f[j] => i = j}

\* entry -> A -> B, B branches to C and D, C -> exit, D -> exit, with
\* A = f[1], B = f[2], C = f[3], D = f[4] and exit = f[5].
DiamondBody(f) ==
    [bb \in 0..5 |->
        CASE bb = START_BLOCK -> Term("Goto", <<f[1]>>, <<>>)
          [] bb = f[1] -> Term("Goto", <<f[2]>>, <<>>)
          [] bb = f[2] -> Term("SwitchInt", <<f[3], f[4]>>, <<>>)
          [] bb = f[3] -> Term("Goto", <<f[5]>>, <<>>)
          [] bb = f[4] -> Term("Goto", <<f[5]>>, <<>>)
          [] OTHER -> Term("Return", <<>>, <<>>)]

DiamondBodies == {DiamondBody(f) : f \in DiamondNumberings}

\* The program run on a diamond.
DiamondInit ==
    /\ mir_body \in DiamondBodies
    /\ graph = NoGraph
    /\ n_unvisited_preds = IdxEmpty
    /\ state = IdxEmpty
    /\ ready_queue = <<>>
    /\ fallback_queue = <<>>
    /\ yielded = <<>>
    /\ ended = FALSE
    /\ pc = "mir"
    /\ panic = ""

DiamondSpec == DiamondInit /\ [][Next]_vars

(* ------------------------ vocabulary of the claims --------------------- *)

\* A graph has been returned by from_mir.
Built == pc \in {"built", "traversal"}

Nodes == DOMAIN graph.bcbs

RelevantTargets(bb) == Range(bcb_filtered_successors(mir_body[bb]).targets)

RECURSIVE RelevantClosure(_, _)
RelevantClosure(frontier, seen) ==
    IF frontier = {} THEN seen
    ELSE LET fresh == (UNION {RelevantTargets(bb) : bb \in frontier}) \ seen
         IN RelevantClosure(fresh, seen \cup fresh)

\* Blocks reachable from the entry block along coverage-relevant edges.
RelevantReachable == RelevantClosure({START_BLOCK}, {START_BLOCK})

\* Number of positions of the sequence s that hold x.
Count(s, x) == Cardinality({i \in 1..Len(s) : s[i] = x})

NoRepeats(s) == \A i, j \in 1..Len(s) : s[i] = s[j] => i = j

\* The nodes whose chain holds bb.
Owners(bb) == {n \in Nodes : bb \in Range(graph.bcbs[n].basic_blocks)}

\* Position of the first occurrence of x in s.
FirstIndex(s, x) == CHOOSE i \in 1..Len(s) : s[i] = x /\ \A j \in 1..(i - 1) : s[j] # x

(* -------------------------------- C1 ----------------------------------- *)

\* C1: a fresh traversal pulled until next() returns None has yielded every
\* node of the graph exactly once, and the first node yielded is START_BCB;
\* no call of next() panics (only from_mir can).
C1_VisitsEveryNodeOnce ==
    /\ pc = "traversal" =>
          /\ NoRepeats(yielded)
          /\ Range(yielded) \subseteq Nodes
          /\ yielded # <<>> => yielded[1] = START_BCB
          /\ ended => Range(yielded) = Nodes /\ Len(yielded) = IdxLen(graph.bcbs)
    /\ pc = "panicked" => state = IdxEmpty

\* A traversal that has ended on a graph of four nodes, one of which came
\* from the fallback queue: it was yielded before one of its predecessors.
C1_Witness ==
    /\ pc = "traversal" /\ ended
    /\ Len(yielded) = NumBlocks
    /\ \E n \in Nodes : \E p \in Range(graph.predecessors[n]) :
          \E i, j \in 1..Len(yielded) : yielded[i] = n /\ yielded[j] = p /\ i < j

(* -------------------------------- C2 ----------------------------------- *)

\* C2 as claimed: every block reachable along coverage-relevant edges is in
\* exactly one node, and bcb_from_bb maps it there; every other block is in
\* no node and maps to None.
C2_Original ==
    Built => \A bb \in Blocks :
        IF bb \in RelevantReachable
        THEN \E n \in Nodes : /\ Owners(bb) = {n}
                              /\ Count(graph.bcbs[n].basic_blocks, bb) = 1
                              /\ bcb_from_bb(graph, bb) = Some(n)
        ELSE Owners(bb) = {} /\ bcb_from_bb(graph, bb) = None

\* C2 amended: the same for the reachable blocks whose terminator is not
\* Unreachable; a reachable block ending in Unreachable, like an unreachable
\* block, is in no node and maps to None.
C2_Amended ==
    Built => \A bb \in Blocks :
        IF bb \in RelevantReachable /\ mir_body[bb].kind # "Unreachable"
        THEN \E n \in Nodes : /\ Owners(bb) = {n}
                              /\ Count(graph.bcbs[n].basic_blocks, bb) = 1
                              /\ bcb_from_bb(graph, bb) = Some(n)
        ELSE Owners(bb) = {} /\ bcb_from_bb(graph, bb) = None

\* A built graph with a chain of several blocks, a block no relevant edge
\* reaches, and a reachable block ending in Unreachable.
C2_Witness ==
    /\ Built
    /\ \E n \in Nodes : Len(graph.bcbs[n].basic_blocks) > 1
    /\ \E bb \in Blocks : bb \notin RelevantReachable /\ bcb_from_bb(graph, bb) = None
    /\ \E bb \in RelevantReachable :
          mir_body[bb].kind = "Unreachable" /\ bcb_from_bb(graph, bb) = None

(* -------------------------------- C3 ----------------------------------- *)

\* C3: node 0 is the entry node, led by the entry block and without
\* predecessors, and every other node has at least one predecessor.
C3_EntryIsOnlyRoot ==
    Built =>
        /\ START_BCB \in Nodes
        /\ leader_bb(graph.bcbs[START_BCB]) = START_BLOCK
        /\ graph.predecessors[START_BCB] = <<>>
        /\ \A n \in Nodes \ {START_BCB} : Len(graph.predecessors[n]) >= 1

\* A built graph with a node that has two predecessors.
C3_Witness ==
    Built /\ IdxLen(graph.bcbs) >= 3 /\ \E n \in Nodes : Len(graph.predecessors[n]) >= 2

(* -------------------------------- C4 ----------------------------------- *)

\* The nodes owning the relevant targets of the last block of n, in the order
\* the terminator names them, duplicates kept.
TargetNodes(n) ==
    LET targets == bcb_filtered_successors(mir_body[last_bb(graph.bcbs[n])]).targets
        mapped == SelectSeq(targets, LAMBDA bb : Owners(bb) # {})
    IN [i \in 1..Len(mapped) |-> CHOOSE m \in Owners(mapped[i]) : TRUE]

\* C4: a successor list names no node twice, holds exactly the nodes of the
\* last block's relevant targets in order of first occurrence, and the
\* predecessor lists are the exact inverse of the successor lists.
C4_AdjacencyDedupInverse ==
    Built => \A n \in Nodes :
        LET succs == graph.successors[n]
        IN /\ NoRepeats(succs)
           /\ Range(succs) = Range(TargetNodes(n))
           /\ \A i, j \in 1..Len(succs) :
                 i < j => FirstIndex(TargetNodes(n), succs[i]) < FirstIndex(TargetNodes(n), succs[j])
           /\ \A m \in Nodes :
                 Count(graph.predecessors[n], m) =
                     IF n \in Range(graph.successors[m]) THEN 1 ELSE 0

\* A built graph in which a last block names the same target twice and the
\* node keeps one edge to it.
C4_Witness ==
    /\ Built
    /\ \E n \in Nodes :
          /\ Len(TargetNodes(n)) = 2
          /\ Len(graph.successors[n]) = 1
          /\ graph.predecessors[graph.successors[n][1]] = <<n>>

(* -------------------------------- C5 ----------------------------------- *)

\* C5: inside a node every block but the first has the block before it as
\* its whole predecessor list and that block is out-chainable; and no node's
\* leader could have been chained onto another node's last block.
C5_ChainsValidAndMaximal ==
    Built =>
        /\ \A n \in Nodes :
              LET chain == graph.bcbs[n].basic_blocks
              IN /\ chain # <<>>
                 /\ \A i \in 1..(Len(chain) - 1) :
                       /\ is_out_chainable(coverage_successors(mir_body, chain[i]))
                       /\ MirPredecessors(mir_body)[chain[i + 1]] = <<chain[i]>>
        /\ \A m, n \in Nodes :
              m # n =>
                 ~ /\ is_out_chainable(coverage_successors(mir_body, last_bb(graph.bcbs[m])))
                   /\ MirPredecessors(mir_body)[leader_bb(graph.bcbs[n])]
                          = <<last_bb(graph.bcbs[m])>>

\* A built graph with a chain of three blocks whose last block is a Yield,
\* the resume block having that block as its only predecessor.
C5_Witness ==
    /\ Built
    /\ \E n \in Nodes : Len(graph.bcbs[n].basic_blocks) = 3
    /\ \E m, n \in Nodes :
             /\ m # n
             /\ mir_body[last_bb(graph.bcbs[m])].kind = "Yield"
             /\ MirPredecessors(mir_body)[leader_bb(graph.bcbs[n])] = <<last_bb(graph.bcbs[m])>>

(* ------------------------ dominance, from paths ------------------------ *)

\* a dominates b in the built graph: every path from the entry node to b
\* passes through a.
Dom(a, b) == DominatesByPaths(graph.successors, START_BCB, a, b)

StrictDom(a, b) == a # b /\ Dom(a, b)

\* The loop headers among the strict dominators of n.
EnclosingHeaders(n) == {h \in graph.is_loop_header : StrictDom(h, n)}

(* -------------------------------- C6 ----------------------------------- *)

\* C6: the ranks are a bijection onto 0..num_nodes-1, so distinct nodes never
\* compare Equal, and a node that dominates another compares Less than it.
C6_RankConsistentWithDominance ==
    Built =>
        /\ {graph.dominator_order_rank[n] : n \in Nodes} = 0..(IdxLen(graph.bcbs) - 1)
        /\ \A a, b \in Nodes :
              /\ (cmp_in_dominator_order(graph, a, b) = "Equal") = (a = b)
              /\ dominates(graph, a, b) => cmp_in_dominator_order(graph, a, b) # "Greater"
              /\ dominates(graph, a, b) /\ a # b => cmp_in_dominator_order(graph, a, b) = "Less"
              /\ Dom(a, b) /\ a # b => cmp_in_dominator_order(graph, a, b) = "Less"

\* A built graph where rank order differs from node order, with a node that
\* dominates another and two nodes of which neither dominates the other.
C6_Witness ==
    /\ Built
    /\ \E a, b \in Nodes : a < b /\ cmp_in_dominator_order(graph, a, b) = "Greater"
    /\ \E a, b \in Nodes : a # b /\ dominates(graph, a, b)
    /\ \E a, b \in Nodes : ~dominates(graph, a, b) /\ ~dominates(graph, b, a)

(* -------------------------------- C7 ----------------------------------- *)

\* C7: a node is marked loop header, and then leads its own
\* loop_headers_containing, iff reloop_predecessors is non-empty, iff it
\* dominates one of its predecessors; reloop_predecessors is the sub-sequence
\* of the predecessors that the node dominates.
C7_LoopHeaderIffReloop ==
    Built => \A n \in Nodes :
        LET headers == loop_headers_containing(graph, n)
        IN /\ (n \in graph.is_loop_header) = (reloop_predecessors(graph, n) # <<>>)
           /\ (n \in graph.is_loop_header) = (headers # <<>> /\ headers[1] = n)
           /\ (n \in graph.is_loop_header) = (n \in Range(headers))
           /\ (n \in graph.is_loop_header) = (\E p \in Range(graph.predecessors[n]) : Dom(n, p))
           /\ reloop_predecessors(graph, n) =
                  SelectSeq(graph.predecessors[n], LAMBDA p : Dom(n, p))

\* A built graph with a loop header that has a predecessor it dominates and
\* one it does not.
C7_Witness ==
    /\ Built
    /\ \E n \in graph.is_loop_header :
          /\ reloop_predecessors(graph, n) # <<>>
          /\ Len(reloop_predecessors(graph, n)) < Len(graph.predecessors[n])

(* -------------------------------- C8 ----------------------------------- *)

\* C8: enclosing_loop_header[n] is the nearest loop header among the strict
\* dominators of n, None when there is none; it is the immediate dominator
\* when that is a loop header and else the immediate dominator's own value;
\* and the immediate dominator has the smaller rank.
C8_EnclosingIsNearestHeader ==
    Built => \A n \in Nodes :
        LET e == graph.enclosing_loop_header[n]
            idom == immediate_dominator(graph, n)
        IN /\ (e = None) = (EnclosingHeaders(n) = {})
           /\ e # None =>
                 /\ Unwrap(e) # n
                 /\ Unwrap(e) \in EnclosingHeaders(n)
                 /\ dominates(graph, Unwrap(e), n)
                 /\ \A h \in EnclosingHeaders(n) : Dom(h, Unwrap(e))
           /\ idom = None => e = None
           /\ idom # None =>
                 /\ e = IF Unwrap(idom) \in graph.is_loop_header THEN idom
                        ELSE graph.enclosing_loop_header[Unwrap(idom)]
                 /\ graph.dominator_order_rank[Unwrap(idom)] < graph.dominator_order_rank[n]

\* A built graph with a node whose enclosing loop header is inherited: its
\* immediate dominator is not a loop header.
C8_Witness ==
    /\ Built
    /\ \E n \in Nodes :
          /\ graph.enclosing_loop_header[n] # None
          /\ immediate_dominator(graph, n) # graph.enclosing_loop_header[n]

(* -------------------------------- C9 ----------------------------------- *)

\* The loop of the scenario: entry -> Loop-head, Loop-head -> Body and Exit,
\* Body -> Loop-head.
LoopScenario ==
    [bb \in Blocks |->
        CASE bb = 0 -> Term("Goto", <<1>>, <<>>)
          [] bb = 1 -> Term("SwitchInt", <<2, 3>>, <<>>)
          [] bb = 2 -> Term("Goto", <<1>>, <<>>)
          [] OTHER -> Term("Return", <<>>, <<>>)]

\* C9: loop_headers_containing(n) is finite and without repeats; n leads it
\* iff n is a loop header; every other element is a loop header that strictly
\* dominates n and every element before it; the chain ends in None. In the
\* loop scenario Body yields [Loop-head] and Loop-head's reloop
\* predecessors are [Body].
C9_HeadersInnermostFirst ==
    Built =>
        /\ \A n \in Nodes :
              LET headers == loop_headers_containing(graph, n)
              IN /\ NoRepeats(headers)
                 /\ Len(headers) <= IdxLen(graph.bcbs)
                 /\ (n \in graph.is_loop_header) = (headers # <<>> /\ headers[1] = n)
                 /\ \A i \in 1..Len(headers) :
                       /\ headers[i] \in graph.is_loop_header
                       /\ headers[i] = n => i = 1
                       /\ headers[i] # n => StrictDom(headers[i], n)
                       /\ \A j \in 1..(i - 1) : StrictDom(headers[i], headers[j])
                 /\ graph.enclosing_loop_header[IF headers = <<>> THEN n ELSE Last(headers)]
                        = None
        /\ mir_body = LoopScenario =>
              /\ \A bb \in 0..3 : bcb_from_bb(graph, bb) # None
              /\ loop_headers_containing(graph, Unwrap(bcb_from_bb(graph, 2)))
                     = bcb_from_bb(graph, 1)
              /\ reloop_predecessors(graph, Unwrap(bcb_from_bb(graph, 1)))
                     = bcb_from_bb(graph, 2)

\* The graph built from the loop scenario.
C9_Witness == Built /\ mir_body = LoopScenario

\* A built graph with a loop header inside another loop: it yields itself
\* and then the outer header.
C9_NestedWitness ==
    Built /\ \E n \in Nodes : Len(loop_headers_containing(graph, n)) = 2

(* -------------------------------- C10 ---------------------------------- *)

\* n is inside the loop of the header h: n is h, or h dominates n and n
\* reaches a reloop predecessor of h along a path that avoids h.
InLoop(h, n) ==
    \/ n = h
    \/ /\ Dom(h, n)
       /\ \E p \in Range(reloop_predecessors(graph, h)) :
             p \in ReachableWithout(graph.successors, n, h)

LastTargets(n) == bcb_filtered_successors(mir_body[last_bb(graph.bcbs[n])]).targets

\* C11 as claimed: a node whose last block has a number of relevant targets
\* other than 1 has no simple successor, and an out-summable node with
\* exactly one successor s has the simple successor s.
C11_Original ==
    Built => \A n \in Nodes :
        /\ Len(LastTargets(n)) # 1 => simple_successor(graph, n) = None
        /\ graph.bcbs[n].is_out_summable /\ Len(graph.successors[n]) = 1
              => simple_successor(graph, n) = Some(graph.successors[n][1])

\* C11 amended: what counts is the number of distinct nodes among the
\* relevant targets, not the number of targets. simple_successor is Some(s)
\* exactly when the last block is not a Yield and the relevant targets that
\* lie in a node all lie in the one node s; with no relevant target, or a
\* Yield, or targets in several nodes, it is None.
C11_Amended ==
    Built => \A n \in Nodes :
        LET live == Range(TargetNodes(n))
            is_yield == mir_body[last_bb(graph.bcbs[n])].kind = "Yield"
        IN /\ graph.bcbs[n].is_out_summable = (~is_yield /\ LastTargets(n) # <<>>)
           /\ \A s \in Nodes :
                 (simple_successor(graph, n) = Some(s)) = (~is_yield /\ live = {s})
           /\ (simple_successor(graph, n) = None) = (is_yield \/ Cardinality(live) # 1)
           /\ LastTargets(n) = <<>> => simple_successor(graph, n) = None
           /\ graph.bcbs[n].is_out_summable /\ Len(graph.successors[n]) = 1
                 => simple_successor(graph, n) = Some(graph.successors[n][1])

\* A built graph with a node whose last block has two relevant targets and
\* that still has a simple successor, a node ending in a Yield whose only
\* successor is not simple, and a node with two successors.
C11_Witness ==
    /\ Built
    /\ \E n \in Nodes : Len(LastTargets(n)) = 2 /\ simple_successor(graph, n) # None
    /\ \E n \in Nodes :
          /\ mir_body[last_bb(graph.bcbs[n])].kind = "Yield"
          /\ Len(graph.successors[n]) = 1
          /\ simple_successor(graph, n) = None

\* A built graph with a node of two successors, which has no simple successor.
C11_BranchWitness ==
    Built /\ \E n \in Nodes : Len(graph.successors[n]) = 2 /\ simple_successor(graph, n) = None

(* -------------------------------- C12 ---------------------------------- *)

\* The nodes yielded before position i.
YieldedBefore(i) == {yielded[j] : j \in 1..(i - 1)}

\* C12: every node yielded other than the entry node has a predecessor other
\* than itself that was yielded at an earlier position.
C12_SomePredecessorFirst ==
    \A i \in 1..Len(yielded) :
        yielded[i] # START_BCB =>
            \E p \in Range(graph.predecessors[yielded[i]]) \ {yielded[i]} :
                p \in YieldedBefore(i)

\* A traversal that has ended and has yielded a node with a self-edge, and a
\* node of which one predecessor was yielded before it and one after it.
C12_Witness ==
    /\ pc = "traversal" /\ ended
    /\ \E n \in Range(yielded) : n \in Range(graph.predecessors[n])
    /\ \E i \in 1..Len(yielded) : \E p, q \in Range(graph.predecessors[yielded[i]]) :
          /\ p \in YieldedBefore(i)
          /\ q # yielded[i] /\ q \notin YieldedBefore(i)

(* -------------------------------- C13 ---------------------------------- *)

\* The unvisited nodes whose predecessors are all visited.
ReadyNodes ==
    {n \in Nodes : /\ state[n] # "Visited"
                   /\ \A p \in Range(graph.predecessors[n]) : state[p] = "Visited"}

\* Between calls the ready queue holds exactly the ready nodes, once each,
\* and they are the nodes in state InReadyQueue; the visited nodes are the
\* yielded ones; and whenever a node was yielded before one of its
\* predecessors, no node not yet yielded had all its predecessors yielded.
C13_ReadyExact ==
    pc = "traversal" =>
        /\ Range(ready_queue) = ReadyNodes
        /\ NoRepeats(ready_queue)
        /\ ReadyNodes = {n \in Nodes : state[n] = "InReadyQueue"}
        /\ Range(yielded) = {n \in Nodes : state[n] = "Visited"}
        /\ \A i \in 1..Len(yielded) :
              ~(Range(graph.predecessors[yielded[i]]) \subseteq YieldedBefore(i)) =>
                  ~ \E m \in Nodes \ YieldedBefore(i) :
                        Range(graph.predecessors[m]) \subseteq YieldedBefore(i)

\* A call of next() with a non-empty ready queue yields its head, all of
\* whose predecessors are visited; a call that yields a node with an
\* unvisited predecessor is made with no ready node.
C13_ReadyStep ==
    pc = "traversal" /\ pc' = "traversal" /\ Len(yielded') = Len(yielded) + 1 =>
        LET n == yielded'[Len(yielded')]
        IN /\ ready_queue # <<>> =>
                 /\ n = Head(ready_queue)
                 /\ Range(graph.predecessors[n]) \subseteq Range(yielded)
           /\ ~(Range(graph.predecessors[n]) \subseteq Range(yielded)) =>
                 /\ ReadyNodes = {}
                 /\ ready_queue = <<>>
                 /\ state[n] = "InFallbackQueue"

\* C13: the traversal prefers ready nodes. Between calls the ready queue is
\* exactly the set of unvisited nodes whose predecessors are all visited; a
\* node yielded from it has had every predecessor yielded before; and a node
\* is yielded with an unvisited predecessor only when no node is ready.
C13_PrefersReady == [](C13_ReadyExact) /\ [][C13_ReadyStep]_vars

\* A traversal in which a node has been yielded before one of its
\* predecessors, and after that a node is waiting in the ready queue while
\* another is still in the fallback queue.
C13_Witness ==
    /\ pc = "traversal"
    /\ \E i \in 1..Len(yielded) :
          ~(Range(graph.predecessors[yielded[i]]) \subseteq YieldedBefore(i))
    /\ ready_queue # <<>>
    /\ \E n \in Nodes : state[n] = "InFallbackQueue"

(* -------------------------------- C14 ---------------------------------- *)

\* The nodes in state InFallbackQueue.
InFallback == {n \in Nodes : state[n] = "InFallbackQueue"}

\* No node is ready and unvisited nodes remain.
FallbackTurn ==
    pc = "traversal" /\ ready_queue = <<>> /\ \E n \in Nodes : state[n] # "Visited"

\* The least element of a non-empty set of nodes.
LowestId(S) == CHOOSE n \in S : \A m \in S : n <= m

\* When node m was discovered: the position in `yielded` of the first
\* yielded node that has m as a successor, and the place of m in that
\* node's successor list.
DiscoveryKey(m) ==
    LET i == CHOOSE k \in 1..Len(yielded) :
                 /\ m \in Range(graph.successors[yielded[k]])
                 /\ \A j \in 1..(k - 1) : m \notin Range(graph.successors[yielded[j]])
    IN <<i, FirstIndex(graph.successors[yielded[i]], m)>>

KeyBefore(a, b) == a[1] < b[1] \/ (a[1] = b[1] /\ a[2] < b[2])

\* C14 as claimed: when no node is ready and unvisited nodes remain, next()
\* yields the node of lowest id among those in state InFallbackQueue.
C14_Original ==
    FallbackTurn =>
        /\ InFallback # {}
        /\ IteratorNext(Traversal, graph).node = Some(LowestId(InFallback))

\* C14 amended: the fallback is first-in first-out, not declaration order.
\* When no node is ready and unvisited nodes remain, next() yields the
\* first entry of the fallback queue that is still InFallbackQueue, which
\* is the node in that state that was discovered earliest.
C14_Amended ==
    FallbackTurn =>
        LET live == SelectSeq(fallback_queue, LAMBDA n : state[n] = "InFallbackQueue")
            r == IteratorNext(Traversal, graph)
        IN /\ InFallback # {}
           /\ Range(live) = InFallback
           /\ r.node = Some(live[1])
           /\ \A m \in InFallback \ {live[1]} :
                 KeyBefore(DiscoveryKey(live[1]), DiscoveryKey(m))

\* A fallback turn with two nodes in state InFallbackQueue where the node
\* that next() yields is not the one of lowest id.
C14_Witness ==
    /\ FallbackTurn
    /\ Cardinality(InFallback) >= 2
    /\ IteratorNext(Traversal, graph).node # Some(LowestId(InFallback))

\* A fallback turn whose fallback queue starts with a stale entry.
C14_StaleWitness ==
    FallbackTurn /\ fallback_queue # <<>> /\ state[Head(fallback_queue)] = "Visited"

(* -------------------------------- C15 ---------------------------------- *)

\* from_mir has panicked: no graph was returned.
ConstructionPanicked == pc = "panicked" /\ graph = NoGraph

\* C15 as claimed: on a body whose entry block has no predecessors, whatever
\* its terminators, from_mir completes: no assertion, expect or unwrap fails.
C15_Original == ~ConstructionPanicked

\* What the code does: from_mir panics exactly on the bodies whose entry
\* block ends in Unreachable, in start_node's expect; the assertions of
\* from_mir itself never fail.
C15_PanicsOnUnreachableEntry ==
    /\ ConstructionPanicked =>
          /\ mir_body[START_BLOCK].kind = "Unreachable"
          /\ panic = "mir::START_BLOCK should be in a BasicCoverageBlock"
    /\ Built => mir_body[START_BLOCK].kind # "Unreachable"

\* A body whose entry block ends in Unreachable, on which from_mir panicked.
C15_Witness == ConstructionPanicked /\ mir_body[START_BLOCK].kind = "Unreachable"

\* A graph built from a body in which a relevant target of a reachable
\* block ends in Unreachable.
C15_TargetWitness ==
    Built /\ \E bb \in RelevantReachable : \E t \in RelevantTargets(bb) :
                mir_body[t].kind = "Unreachable"

(* -------------------------------- C16 ---------------------------------- *)

\* The blocks of the diamond that mir_body is.
BlockA == mir_body[START_BLOCK].targets[1]
BlockB == mir_body[BlockA].targets[1]
BlockC == mir_body[BlockB].targets[1]
BlockD == mir_body[BlockB].targets[2]
BlockExit == mir_body[BlockC].targets[1]

\* The node of a block that has one.
NodeOf(bb) == Unwrap(bcb_from_bb(graph, bb))

\* On the diamond from_mir gives four nodes: entry, A and B merged into the
\* entry node, C and D in a node each, and a node for exit; no node is a
\* loop header.
DiamondNodes ==
    /\ IdxLen(graph.bcbs) = 4
    /\ \A bb \in DOMAIN mir_body : bcb_from_bb(graph, bb) # None
    /\ graph.bcbs[START_BCB].basic_blocks = <<START_BLOCK, BlockA, BlockB>>
    /\ graph.bcbs[NodeOf(BlockC)].basic_blocks = <<BlockC>>
    /\ graph.bcbs[NodeOf(BlockD)].basic_blocks = <<BlockD>>
    /\ graph.bcbs[NodeOf(BlockExit)].basic_blocks = <<BlockExit>>
    /\ Cardinality({START_BCB, NodeOf(BlockC), NodeOf(BlockD), NodeOf(BlockExit)}) = 4
    /\ graph.is_loop_header = {}
    /\ \A n \in Nodes : loop_headers_containing(graph, n) = <<>>

\* C16 as claimed: on the diamond, from_mir merges entry, A and B into one
\* node, gives C and D a node each and exit a node, no node is a loop
\* header, and C and D are each the sole predecessor of the exit node.
C16_Original ==
    Built /\ mir_body \in DiamondBodies =>
        /\ DiamondNodes
        /\ sole_predecessor(graph, NodeOf(BlockExit)) = Some(NodeOf(BlockC))
        /\ sole_predecessor(graph, NodeOf(BlockExit)) = Some(NodeOf(BlockD))

\* C16 amended: the same nodes, but the exit node has the two predecessors
\* C and D and so no sole predecessor; it is the merged entry node that is
\* the sole predecessor of C and of D, and exit is the simple successor of
\* C and of D.
C16_Amended ==
    Built /\ mir_body \in DiamondBodies =>
        /\ DiamondNodes
        /\ Range(graph.predecessors[NodeOf(BlockExit)]) = {NodeOf(BlockC), NodeOf(BlockD)}
        /\ Len(graph.predecessors[NodeOf(BlockExit)]) = 2
        /\ sole_predecessor(graph, NodeOf(BlockExit)) = None
        /\ sole_predecessor(graph, NodeOf(BlockC)) = Some(START_BCB)
        /\ sole_predecessor(graph, NodeOf(BlockD)) = Some(START_BCB)
        /\ sole_predecessor(graph, START_BCB) = None
        /\ graph.successors[START_BCB] = <<NodeOf(BlockC), NodeOf(BlockD)>>
        /\ simple_successor(graph, NodeOf(BlockC)) = Some(NodeOf(BlockExit))
        /\ simple_successor(graph, NodeOf(BlockD)) = Some(NodeOf(BlockExit))
        /\ graph.successors[NodeOf(BlockExit)] = <<>>

\* The graph built from a diamond whose blocks are not numbered in the
\* order entry, A, B, C, D, exit.
C16_Witness ==
    /\ Built /\ mir_body \in DiamondBodies
    /\ BlockExit < BlockA /\ BlockD < BlockC
    /\ Len(graph.predecessors[NodeOf(BlockExit)]) = 2

(* -------------------------------- C17 ---------------------------------- *)

\* C17: on a graph built by from_mir no check of the traversal ever fails:
\* the only panic is from_mir's own, the coming call of next() does not
\* panic, the head of the ready queue is InReadyQueue, once the ready queue
\* is empty every fallback entry is InFallbackQueue or Visited (and none is
\* ever Unqueued), the node that next() marks is not yet Visited, no
\* successor of it is InReadyQueue, and the counter of every successor that
\* is decremented is at least 1.
C17_NoTraversalCheckFails ==
    /\ pc = "panicked" => ConstructionPanicked
    /\ pc = "traversal" =>
          LET r == next_inner(Traversal)
          IN /\ IteratorNext(Traversal, graph).t.panic = ""
             /\ \A n \in Range(ready_queue) : state[n] = "InReadyQueue"
             /\ \A n \in Range(fallback_queue) : state[n] # "Unqueued"
             /\ ready_queue = <<>> =>
                   \A n \in Range(fallback_queue) :
                       state[n] \in {"InFallbackQueue", "Visited"}
             /\ r.node # None =>
                   /\ state[Unwrap(r.node)] # "Visited"
                   /\ \A succ \in Range(graph.successors[Unwrap(r.node)]) \ {Unwrap(r.node)} :
                         /\ state[succ] # "InReadyQueue"
                         /\ state[succ] # "Visited" => n_unvisited_preds[succ] >= 1
             /\ \A n \in Nodes : n_unvisited_preds[n] >= 0

\* A traversal in which a node in the ready queue still has a stale entry
\* in the fallback queue.
C17_Witness ==
    /\ pc = "traversal"
    /\ \E n \in Range(fallback_queue) : state[n] = "InReadyQueue"

\* A traversal that has ended after yielding a node with a self-edge from
\* the fallback queue.
C17_SelfEdgeWitness ==
    /\ pc = "traversal" /\ ended
    /\ \E n \in Nodes : n \in Range(graph.successors[n])

(* -------------------------------- C18 ---------------------------------- *)

\* Every call of next() so far has returned Some: their number is Len(yielded).
AllSome == pc = "traversal" /\ ~ended

\* C18: on a graph of N nodes the first N calls of next() return Some and
\* call N+1 returns None, leaving both queues empty and every node Visited;
\* every later call returns None and changes nothing.
C18_EndsAfterAllNodes ==
    LET N == IdxLen(graph.bcbs)
        r == IteratorNext(Traversal, graph)
    IN /\ AllSome => Len(yielded) <= N
       /\ AllSome /\ Len(yielded) < N => r.node # None /\ r.t.panic = ""
       /\ AllSome /\ Len(yielded) = N =>
             /\ r.node = None /\ r.t.panic = ""
             /\ r.t.ready_queue = <<>> /\ r.t.fallback_queue = <<>>
             /\ \A n \in Nodes : r.t.state[n] = "Visited"
       /\ pc = "traversal" /\ ended =>
             /\ Len(yielded) = N
             /\ ready_queue = <<>> /\ fallback_queue = <<>>
             /\ \A n \in Nodes : state[n] = "Visited"
             /\ r = [t |-> Traversal, node |-> None]

\* No call of next() after the one that returned None changes any state.
C18_NoRestart == ended => UNCHANGED vars

\* C18, with its last part as a property of steps: the traversal ends after
\* exactly N yields and nothing changes after it has ended.
C18_Terminates == [](C18_EndsAfterAllNodes) /\ [][C18_NoRestart]_vars

\* All nodes of a graph of four have been yielded and the call that will
\* return None still has stale fallback entries to discard.
C18_Witness ==
    /\ AllSome
    /\ Len(yielded) = IdxLen(graph.bcbs) /\ Len(yielded) = NumBlocks
    /\ fallback_queue # <<>>

\* A traversal that has ended on a graph of three nodes.
C18_EndedWitness ==
    pc = "traversal" /\ ended /\ IdxLen(graph.bcbs) = 3

(* -------------------------------- C19 ---------------------------------- *)

\* Before the first call of next() the entry node is InReadyQueue and every
\* other node is Unqueued.
C19_InitialStates ==
    pc = "traversal" /\ yielded = <<>> /\ ~ended =>
        /\ DOMAIN state = Nodes
        /\ \A n \in Nodes :
              state[n] = IF n = START_BCB THEN "InReadyQueue" ELSE "Unqueued"

\* A call of next() moves no node to an earlier state, and leaves Visited
\* nodes Visited.
C19_Forward ==
    pc = "traversal" =>
        \A n \in Nodes :
            /\ ReadyStateOrd(state[n]) <= ReadyStateOrd(state'[n])
            /\ state[n] = "Visited" => state'[n] = "Visited"

\* C19: the states start with the entry InReadyQueue and the rest Unqueued,
\* and every call of next() moves each node's state forward or not at all in
\* the order Unqueued < InFallbackQueue < InReadyQueue < Visited.
C19_StatesOnlyAdvance == [](C19_InitialStates) /\ [][C19_Forward]_vars

\* A traversal with a node in each of the four states.
C19_Witness ==
    /\ pc = "traversal"
    /\ \A st \in {"Unqueued", "InFallbackQueue", "InReadyQueue", "Visited"} :
          \E n \in Nodes : state[n] = st

\* A node that went from Unqueued through InFallbackQueue and InReadyQueue
\* to Visited: it is Visited and its fallback entry is still queued.
C19_AllStepsWitness ==
    pc = "traversal" /\ \E n \in Range(fallback_queue) : state[n] = "Visited"

(* -------------------------------- C20 ---------------------------------- *)

\* The predecessors of n that have not been visited.
UnvisitedPreds(n) == {p \in Range(graph.predecessors[n]) : state[p] # "Visited"}

PushedOnto(kept, after) == SubSeq(after, Len(kept) + 1, Len(after))

\* Between calls no queue holds a node twice; an Unqueued node is in no
\* queue, a node InFallbackQueue is in the fallback queue only, a node in
\* the ready queue is InReadyQueue, and a fallback entry of a node that is
\* not InFallbackQueue is stale: the node is in the ready queue or Visited.
C21_QueuesHoldNodesOnce ==
    pc = "traversal" =>
        /\ NoRepeats(ready_queue) /\ NoRepeats(fallback_queue)
        /\ NoRepeats(yielded)
        /\ ended => Range(yielded) = Nodes
        /\ \A n \in Nodes :
              /\ state[n] = "Unqueued" =>
                    n \notin Range(ready_queue) \cup Range(fallback_queue)
              /\ state[n] = "InFallbackQueue" =>
                    n \in Range(fallback_queue) /\ n \notin Range(ready_queue)
              /\ state[n] = "InReadyQueue" => n \in Range(ready_queue)
              /\ state[n] = "Visited" => n \notin Range(ready_queue) /\ n \in Range(yielded)

\* A call of next() pushes onto the fallback queue only nodes that were
\* Unqueued and onto the ready queue only nodes that were Unqueued or
\* InFallbackQueue, and no node leaves the state it was pushed in except
\* forward; the fallback entries it pops are Visited and not yielded, but
\* for the last, which is yielded if it is InFallbackQueue; a node that is
\* InReadyQueue is not yielded from the fallback queue.
C21_PushAndPopStep ==
    pc = "traversal" /\ pc' = "traversal" =>
        LET r == next_inner(Traversal)
            to_ready == PushedOnto(r.t.ready_queue, ready_queue')
            to_fallback == PushedOnto(r.t.fallback_queue, fallback_queue')
            popped == SubSeq(fallback_queue, 1,
                             Len(fallback_queue) - Len(r.t.fallback_queue))
        IN /\ ready_queue' = r.t.ready_queue \o to_ready
           /\ fallback_queue' = r.t.fallback_queue \o to_fallback
           /\ NoRepeats(to_ready) /\ NoRepeats(to_fallback)
           /\ \A n \in Range(to_fallback) :
                 state[n] = "Unqueued" /\ state'[n] = "InFallbackQueue"
           /\ \A n \in Range(to_ready) :
                 state[n] \in {"Unqueued", "InFallbackQueue"} /\ state'[n] = "InReadyQueue"
           /\ \A n \in Nodes :
                 /\ state[n] # "Unqueued" => state'[n] # "Unqueued"
                 /\ state[n] \in {"InReadyQueue", "Visited"} =>
                       state'[n] \in {"InReadyQueue", "Visited"}
           /\ ready_queue # <<>> => popped = <<>> /\ yielded' = Append(yielded, Head(ready_queue))
           /\ \A i \in 1..Len(popped) :
                 IF state[popped[i]] = "InFallbackQueue"
                 THEN i = Len(popped) /\ yielded' = Append(yielded, popped[i])
                 ELSE state[popped[i]] = "Visited" /\ popped[i] \in Range(yielded)
           /\ Len(yielded') <= Len(yielded) + 1

\* C21: each node is pushed at most once onto each queue, a promoted node
\* is yielded through the ready queue only, and its stale fallback entry is
\* popped in state Visited and discarded; no node is yielded twice or
\* skipped.
C21_PushedAtMostOnce == [](C21_QueuesHoldNodesOnce) /\ [][C21_PushAndPopStep]_vars

\* A traversal that has ended and yielded a node with several predecessors
\* after all of them: it was pushed onto the fallback queue when the first
\* of them was yielded and promoted when the last was.
C21_Witness ==
    /\ pc = "traversal" /\ ended
    /\ \E i \in 1..Len(yielded) :
          /\ Len(graph.predecessors[yielded[i]]) >= 2
          /\ Range(graph.predecessors[yielded[i]]) \subseteq YieldedBefore(i)

(* -------------------------------- C22 ---------------------------------- *)

RECURSIVE SuccessorClosure(_, _)
SuccessorClosure(frontier, seen) ==
    IF frontier = {} THEN seen
    ELSE LET fresh == (UNION {Range(graph.successors[n]) : n \in frontier}) \ seen
         IN SuccessorClosure(fresh, seen \cup fresh)

\* The nodes reached from n along one or more edges.
Descendants(n) ==
    SuccessorClosure(Range(graph.successors[n]), Range(graph.successors[n]))

\* No node of the graph reaches itself.
Acyclic == \A n \in Nodes : n \notin Descendants(n)

\* No node is its own successor and no node is a loop header.
NoSelfEdgeNoHeader ==
    /\ \A n \in Nodes : n \notin Range(graph.successors[n])
    /\ graph.is_loop_header = {}

\* Position i of `yielded` holds a node yielded before one of its
\* predecessors: it came from the fallback queue.
FallbackYield(i) == ~(Range(graph.predecessors[yielded[i]]) \subseteq YieldedBefore(i))

\* The order so far is topological, no node is waiting in state
\* InFallbackQueue when the ready queue is empty, and the fallback entries
\* popped then are all stale.
TopologicalSoFar ==
    /\ \A i \in 1..Len(yielded) : ~FallbackYield(i)
    /\ ready_queue = <<>> =>
          /\ \A n \in Range(fallback_queue) : state[n] = "Visited"
          /\ PopFallback(Traversal) = [t |-> [Traversal EXCEPT !.fallback_queue = <<>>],
                                       node |-> None]

\* C22 as claimed: on a graph without self-edges and without loop headers
\* every node is yielded after all its predecessors, none from the fallback
\* queue, and every fallback entry popped is stale.
C22_Original ==
    pc = "traversal" /\ NoSelfEdgeNoHeader => TopologicalSoFar

\* C22 amended: that holds on the graphs in which no node reaches itself,
\* which is stronger than having no self-edge and no loop header; and on
\* every other graph the finished traversal has yielded some node from the
\* fallback queue.
C22_Amended ==
    /\ pc = "traversal" /\ Acyclic => TopologicalSoFar
    /\ pc = "traversal" /\ Acyclic => NoSelfEdgeNoHeader
    /\ pc = "traversal" /\ ended /\ ~Acyclic => \E i \in 1..Len(yielded) : FallbackYield(i)

\* The traversal of an acyclic graph is about to make the call that returns
\* None, with a stale entry left in the fallback queue: a node with several
\* predecessors was promoted.
C22_Witness ==
    /\ pc = "traversal" /\ ~ended /\ Acyclic
    /\ Len(yielded) = IdxLen(graph.bcbs) /\ Len(yielded) >= 3
    /\ fallback_queue # <<>>

\* The traversal has ended on a graph that has a cycle but no self-edge and
\* no loop header.
C22_IrreducibleWitness ==
    pc = "traversal" /\ ended /\ NoSelfEdgeNoHeader /\ ~Acyclic

(* -------------------------------- C23 ---------------------------------- *)

\* C23 as claimed: in a built graph a node with is_out_summable = TRUE has
\* at least one successor, and a node without successors has
\* is_out_summable = FALSE, also when the relevant targets of its last
\* block are blocks without a node.
C23_Original ==
    Built => \A n \in Nodes :
        /\ graph.bcbs[n].is_out_summable => graph.successors[n] # <<>>
        /\ graph.successors[n] = <<>> => ~graph.bcbs[n].is_out_summable

\* What the code does: is_out_summable is taken from the terminator of the
\* last block alone. It is TRUE with an empty successor list exactly when
\* that terminator is not a Yield and has relevant targets, all of which
\* are blocks without a node, that is, blocks ending in Unreachable.
C23_SummableWithoutSuccessor ==
    Built => \A n \in Nodes :
        /\ graph.bcbs[n].is_out_summable =
              is_out_summable(coverage_successors(mir_body, last_bb(graph.bcbs[n])))
        /\ (graph.bcbs[n].is_out_summable /\ graph.successors[n] = <<>>) =
              /\ mir_body[last_bb(graph.bcbs[n])].kind # "Yield"
              /\ LastTargets(n) # <<>>
              /\ \A bb \in Range(LastTargets(n)) : mir_body[bb].kind = "Unreachable"

\* A built graph with a node that is out-summable and has no successor:
\* its last block jumps to a block ending in Unreachable.
C23_Witness ==
    /\ Built
    /\ \E n \in Nodes :
          /\ graph.bcbs[n].is_out_summable
          /\ graph.successors[n] = <<>>
          /\ mir_body[last_bb(graph.bcbs[n])].kind = "Goto"

(* -------------------------------- C24 ---------------------------------- *)

\* The relevant edges of the body between blocks that have a node.
MappedEdges ==
    {e \in (DOMAIN mir_body) \X (DOMAIN mir_body) :
        /\ e[2] \in RelevantTargets(e[1])
        /\ bcb_from_bb(graph, e[1]) # None
        /\ bcb_from_bb(graph, e[2]) # None}

\* v stands right behind u in the chain of the node of u.
NextInChain(u, v) ==
    LET chain == graph.bcbs[NodeOf(u)].basic_blocks
    IN \E i \in 1..(Len(chain) - 1) : chain[i] = u /\ chain[i + 1] = v

\* C24: every relevant edge u -> v between blocks that have a node either
\* links u to the next block of its chain, or leaves the last block of
\* node(u) for the leader of node(v), which is a successor of node(u); an
\* edge between two nodes, or back into the same node, never leaves the
\* middle of a chain and never enters behind a leader; and every edge
\* m -> n of the graph comes from a relevant edge from last_bb(m) to
\* leader_bb(n).
C24_EdgesAreBlockEdges ==
    Built =>
        /\ \A e \in MappedEdges :
              LET u == e[1]
                  v == e[2]
              IN /\ \/ NextInChain(u, v)
                    \/ /\ u = last_bb(graph.bcbs[NodeOf(u)])
                       /\ NodeOf(v) \in Range(graph.successors[NodeOf(u)])
                       /\ v = leader_bb(graph.bcbs[NodeOf(v)])
                 /\ u # last_bb(graph.bcbs[NodeOf(u)]) =>
                       NextInChain(u, v) /\ RelevantTargets(u) = {v}
                 /\ v # leader_bb(graph.bcbs[NodeOf(v)]) => NextInChain(u, v)
        /\ \A m \in Nodes : \A n \in Range(graph.successors[m]) :
              /\ leader_bb(graph.bcbs[n]) \in RelevantTargets(last_bb(graph.bcbs[m]))
              /\ <<last_bb(graph.bcbs[m]), leader_bb(graph.bcbs[n])>> \in MappedEdges

\* A built graph with a chain of several blocks, an edge between two nodes
\* and a relevant edge to a block without a node.
C24_Witness ==
    /\ Built
    /\ \E e \in MappedEdges : NextInChain(e[1], e[2])
    /\ \E e \in MappedEdges : NodeOf(e[1]) # NodeOf(e[2])
    /\ \E bb \in DOMAIN mir_body : \E t \in RelevantTargets(bb) :
          bcb_from_bb(graph, bb) # None /\ bcb_from_bb(graph, t) = None

\* A built graph in which the last block of a chain of several blocks has
\* an edge back to the leader of the chain.
C24_BackEdgeWitness ==
    /\ Built
    /\ \E e \in MappedEdges :
          /\ NodeOf(e[1]) = NodeOf(e[2]) /\ e[1] # e[2]
          /\ e[2] = leader_bb(graph.bcbs[NodeOf(e[2])])

====
